---- MODULE Spec2Model ----
(***************************************************************************)
(* Model of shpConverter: the DXF -> SHP converter (src/src/dxf2shp.py),   *)
(* the SHP -> DXF converter (src/src/shp2dxf.py) and the CRS sidecar tool  *)
(* (src/src/makePrj4shp.py).                                               *)
(*                                                                         *)
(* Text that the code inspects character by character (selection tokens,   *)
(* the RGB_text attribute) is a sequence of one-character strings; text    *)
(* that the code only builds and compares as a whole (WKT, labels, keys)   *)
(* is a TLA+ string.                                                       *)
(***************************************************************************)
EXTENDS Integers, Sequences, FiniteSets, TLC

VARIABLES
    choice,       \* makePrj4shp.main: the text read from input()
    mpc,          \* makePrj4shp.main: position of the run
    selection,    \* makePrj4shp.main: outcome of parse_choice
    prj,          \* file system: content of <base>.prj per shapefile
    cpg,          \* file system: content of <base>.cpg per shapefile
    shpIdx,       \* makePrj4shp.main: index of the next shapefile of the loop
    sidecarLog,   \* history: the sidecar files opened for writing, in order
    docLayers,    \* dxf2shp: doc.layers, layer name -> color index (0: unset)
    dpc,          \* dxf2shp.convert_one_dxf: position of the call
    nDone,        \* dxf2shp.convert_one_dxf: entities taken from the query
    writers,      \* WriterSet.points / lines / polygons: "none", "open", "closed"
    shapes,       \* per writer: the shapes written
    records,      \* per writer: the attribute records written
    counts,       \* WriterSet.counts
    sources,      \* history: per writer, the entity each shape came from
    outCpg,       \* file system: content of <base>_<kind>.cpg
    lastRgb,      \* history: the last entity_rgb call, its argument and outcome
    backIdx,      \* shp2dxf.convert_shp_to_dxf: index of the next output file
    dxfOut,       \* shp2dxf.convert_shp_to_dxf: entities of the DXF saved per file
    recFields,    \* shp2dxf: field names of the record being decoded
    recVals,      \* shp2dxf: values of the record being decoded
    srcColor,     \* history: the color the record's RGB_text was written from
    decoded,      \* shp2dxf: result of _parse_rgb_from_record
    cpc,          \* shp2dxf: position of the decoding of one record
    bmode,        \* batch: which converter runs, "dxf2shp" or "shp2dxf"
    listing,      \* batch: what os.listdir returned for the input directory
    bpc,          \* batch: position of the run
    bIdx,         \* batch: position of the loop in the listing
    attempted,    \* history: positions of the files whose conversion was begun
    failed,       \* history: positions of the files whose conversion raised
    converted     \* history: positions of the files converted

crsVars == <<choice, mpc, selection, prj, cpg, shpIdx, sidecarLog>>

dxfVars == <<docLayers, dpc, nDone, writers, shapes, records, counts, sources,
             outCpg, lastRgb, backIdx, dxfOut>>

recVars == <<recFields, recVals, srcColor, decoded, cpc>>

batchVars == <<bmode, listing, bpc, bIdx, attempted, failed, converted>>

vars == <<choice, mpc, selection, prj, cpg, shpIdx, sidecarLog,
          docLayers, dpc, nDone, writers, shapes, records, counts, sources,
          outCpg, lastRgb, backIdx, dxfOut,
          recFields, recVals, srcColor, decoded, cpc,
          bmode, listing, bpc, bIdx, attempted, failed, converted>>

----------------------------------------------------------------------------
(* Bounds *)

\* number of .shp files in the target folder of the CRS run
MaxShp == 2

\* number of entities of the drawing that convert_one_dxf is run on
MaxEntities == 2

\* number of files in the input directory of a batch
MaxFiles == 2

----------------------------------------------------------------------------
(* The parts of the state a run does not touch *)

Absent == "<absent>"

KindSet == {"points", "lines", "polygons"}

\* WriterSet.close_all, line 135: the order of the writers
Kinds == <<"points", "lines", "polygons">>

\* a drawing entity's e.dxf namespace, here with nothing set
NoDxf ==
    [has_true_color |-> FALSE, true_color |-> 0, has_color |-> FALSE, color |-> 0,
     has_layer |-> FALSE, layer |-> <<>>]

NoCall == [called |-> FALSE, d |-> NoDxf, raised |-> FALSE, rgb |-> <<0, 0, 0>>,
           lookups |-> <<>>]

\* no drawing is being converted
IdleDxf ==
    /\ docLayers = <<>>
    /\ dpc = "idle"
    /\ nDone = 0
    /\ writers = [k \in KindSet |-> "none"]
    /\ shapes = [k \in KindSet |-> <<>>]
    /\ records = [k \in KindSet |-> <<>>]
    /\ counts = [k \in KindSet |-> 0]
    /\ sources = [k \in KindSet |-> <<>>]
    /\ outCpg = [k \in KindSet |-> Absent]
    /\ lastRgb = NoCall
    /\ backIdx = 0
    /\ dxfOut = [k \in KindSet |-> <<>>]

\* no record is being decoded
IdleRec ==
    /\ recFields = <<>>
    /\ recVals = <<>>
    /\ srcColor = <<>>
    /\ decoded = <<>>
    /\ cpc = "idle"

\* no batch is running
IdleBatch ==
    /\ bmode = "none"
    /\ listing = <<>>
    /\ bpc = "idle"
    /\ bIdx = 0
    /\ attempted = <<>>
    /\ failed = <<>>
    /\ converted = <<>>

----------------------------------------------------------------------------
(* Character-level text *)

DigitChars == <<"0", "1", "2", "3", "4", "5", "6", "7", "8", "9">>

LowerChars == <<"a", "b", "c", "d", "e", "f", "g", "h", "i", "j", "k", "l", "m",
                "n", "o", "p", "q", "r", "s", "t", "u", "v", "w", "x", "y", "z">>

UpperChars == <<"A", "B", "C", "D", "E", "F", "G", "H", "I", "J", "K", "L", "M",
                "N", "O", "P", "Q", "R", "S", "T", "U", "V", "W", "X", "Y", "Z">>

IsDigitChar(c) == \E i \in 1..10 : DigitChars[i] = c

DigitVal(c) == (CHOOSE i \in 1..10 : DigitChars[i] = c) - 1

IsSpaceChar(c) == c \in {" ", "\t", "\n"}

\* str.upper() on one character
UpperChar(c) ==
    IF \E i \in 1..26 : LowerChars[i] = c
    THEN UpperChars[CHOOSE i \in 1..26 : LowerChars[i] = c]
    ELSE c

\* str.lower() on one character
LowerChar(c) ==
    IF \E i \in 1..26 : UpperChars[i] = c
    THEN LowerChars[CHOOSE i \in 1..26 : UpperChars[i] = c]
    ELSE c

upper(s) == [i \in 1..Len(s) |-> UpperChar(s[i])]

lower(s) == [i \in 1..Len(s) |-> LowerChar(s[i])]

\* str.strip(): drop leading and trailing whitespace
strip(s) ==
    LET keep == {i \in 1..Len(s) : ~IsSpaceChar(s[i])}
    IN  IF keep = {} THEN <<>>
        ELSE SubSeq(s, CHOOSE i \in keep : \A j \in keep : i <= j,
                       CHOOSE i \in keep : \A j \in keep : j <= i)

\* str.replace(" ", "")
remove_spaces(s) == SelectSeq(s, LAMBDA c : c # " ")

\* str.isdigit(): non-empty and only digits
isdigit(s) == Len(s) > 0 /\ \A i \in 1..Len(s) : IsDigitChar(s[i])

\* int() of a digit string
RECURSIVE DigitsToInt(_)
DigitsToInt(s) ==
    IF Len(s) = 0 THEN 0
    ELSE 10 * DigitsToInt(SubSeq(s, 1, Len(s) - 1)) + DigitVal(s[Len(s)])

startswith(s, p) == Len(s) >= Len(p) /\ SubSeq(s, 1, Len(p)) = p

endswith(s, p) == Len(s) >= Len(p) /\ SubSeq(s, Len(s) - Len(p) + 1, Len(s)) = p

DropPrefix(s, n) == SubSeq(s, n + 1, Len(s))

----------------------------------------------------------------------------
(* makePrj4shp.py: WKT builders *)

CPG_CONTENT == "UTF-8"

wkt_geogcs_wgs84 ==
    "GEOGCS[\"WGS 84\"," \o
    "DATUM[\"WGS_1984\",SPHEROID[\"WGS 84\",6378137,298.257223563]]," \o
    "PRIMEM[\"Greenwich\",0]," \o
    "UNIT[\"degree\",0.0174532925199433]]"

wkt_geogcs_etrs89 ==
    "GEOGCS[\"ETRS89\"," \o
    "DATUM[\"ETRS_1989\",SPHEROID[\"GRS 1980\",6378137,298.257222101]]," \o
    "PRIMEM[\"Greenwich\",0]," \o
    "UNIT[\"degree\",0.0174532925199433]]"

\* the numeric parameters arrive already formatted as Python prints them
build_wkt_tm(name, geogcs, lat0, lon0, k0, fe, fn) ==
    "PROJCS[\"" \o name \o "\"," \o
    geogcs \o "," \o
    "PROJECTION[\"Transverse_Mercator\"]," \o
    "PARAMETER[\"latitude_of_origin\"," \o lat0 \o "]," \o
    "PARAMETER[\"central_meridian\"," \o lon0 \o "]," \o
    "PARAMETER[\"scale_factor\"," \o k0 \o "]," \o
    "PARAMETER[\"false_easting\"," \o fe \o "]," \o
    "PARAMETER[\"false_northing\"," \o fn \o "]," \o
    "UNIT[\"metre\",1]]"

wkt_utm_wgs84(zone) ==
    LET lon0 == 6 * zone - 183
        name == "WGS 84 / UTM zone " \o ToString(zone) \o "N"
    IN  [name |-> name,
         wkt  |-> build_wkt_tm(name, wkt_geogcs_wgs84, "0", ToString(lon0),
                               "0.9996", "500000.0", "0.0")]

wkt_utm_euref89(zone) ==
    LET lon0 == 6 * zone - 183
        name == "EUREF89 / UTM zone " \o ToString(zone) \o "N"
    IN  [name |-> name,
         wkt  |-> build_wkt_tm(name, wkt_geogcs_etrs89, "0", ToString(lon0),
                               "0.9996", "500000.0", "0.0")]

\* lon0 = zone + 0.5 prints as "<zone>.5"
wkt_ntm(zone) ==
    LET name == "EUREF89 / NTM zone " \o ToString(zone)
        lon0 == ToString(zone) \o ".5"
    IN  [name |-> name,
         wkt  |-> build_wkt_tm(name, wkt_geogcs_etrs89, "0.0", lon0,
                               "1.0", "100000.0", "1000000.0")]

----------------------------------------------------------------------------
(* makePrj4shp.py: the catalog *)

UtmZones == <<32, 33, 35>>

NtmFirst == 5

NtmLast == 20

EurefOption(z) ==
    LET r == wkt_utm_euref89(z)
    IN  [label |-> r.name \o " (EPSG:258" \o ToString(z) \o ")",
         key   |-> "EUREF89/UTM" \o ToString(z),
         wkt   |-> r.wkt]

WgsOption(z) ==
    LET r == wkt_utm_wgs84(z)
    IN  [label |-> r.name \o " (EPSG:326" \o ToString(z) \o ")",
         key   |-> "WGS84/UTM" \o ToString(z),
         wkt   |-> r.wkt]

NtmOption(z) ==
    LET r == wkt_ntm(z)
    IN  [label |-> r.name \o " (EPSG:" \o ToString(5100 + z) \o ")",
         key   |-> "NTM/" \o ToString(z),
         wkt   |-> r.wkt]

build_options ==
    [i \in 1..3 |-> EurefOption(UtmZones[i])] \o
    [i \in 1..3 |-> WgsOption(UtmZones[i])] \o
    [i \in 1..(NtmLast - NtmFirst + 1) |-> NtmOption(NtmFirst + i - 1)]

----------------------------------------------------------------------------
(* makePrj4shp.py: parse_choice *)

Chosen(label, wkt) == [ok |-> TRUE, label |-> label, wkt |-> wkt, error |-> ""]

ValueError(msg) == [ok |-> FALSE, label |-> "", wkt |-> "", error |-> msg]

NoMatch == [matched |-> FALSE, zone |-> 0]

Match(digits) == [matched |-> TRUE, zone |-> DigitsToInt(digits)]

\* UTM(\d{2})N? against the whole of t
UtmTail(t) ==
    IF /\ startswith(t, <<"U", "T", "M">>)
       /\ Len(t) \in {5, 6}
       /\ IsDigitChar(t[4])
       /\ IsDigitChar(t[5])
       /\ (Len(t) = 6 => t[6] = "N")
    THEN Match(SubSeq(t, 4, 5))
    ELSE NoMatch

\* the WGS pattern with its prefix made optional
match_wgs_utm_optional_prefix(t) ==
    LET W3 == <<"W", "G", "S", "/">>
        W5 == <<"W", "G", "S", "8", "4", "/">>
    IN  IF startswith(t, W3) /\ UtmTail(DropPrefix(t, 4)).matched
        THEN UtmTail(DropPrefix(t, 4))
        ELSE IF startswith(t, W5) /\ UtmTail(DropPrefix(t, 6)).matched
        THEN UtmTail(DropPrefix(t, 6))
        ELSE UtmTail(t)

\* re.fullmatch(r"(WGS|WGS84)/UTM(\d{2})N?", t)
match_wgs_utm(t) ==
    LET W3 == <<"W", "G", "S", "/">>
        W5 == <<"W", "G", "S", "8", "4", "/">>
    IN  IF startswith(t, W3) /\ UtmTail(DropPrefix(t, 4)).matched
        THEN UtmTail(DropPrefix(t, 4))
        ELSE IF startswith(t, W5) /\ UtmTail(DropPrefix(t, 6)).matched
        THEN UtmTail(DropPrefix(t, 6))
        ELSE NoMatch

\* re.fullmatch(r"((EUREF89|ETRS89)/)?UTM(\d{2})N?", t)
match_euref_utm(t) ==
    LET EU == <<"E", "U", "R", "E", "F", "8", "9", "/">>
        ET == <<"E", "T", "R", "S", "8", "9", "/">>
    IN  IF startswith(t, EU) /\ UtmTail(DropPrefix(t, 8)).matched
        THEN UtmTail(DropPrefix(t, 8))
        ELSE IF startswith(t, ET) /\ UtmTail(DropPrefix(t, 7)).matched
        THEN UtmTail(DropPrefix(t, 7))
        ELSE UtmTail(t)

\* re.fullmatch(r"NTM/(\d{1,2})", t)
match_ntm(t) ==
    IF /\ startswith(t, <<"N", "T", "M", "/">>)
       /\ Len(t) \in {5, 6}
       /\ isdigit(DropPrefix(t, 4))
    THEN Match(DropPrefix(t, 4))
    ELSE NoMatch

index_choice_shifted(idx, options) ==
    IF 1 <= idx /\ idx < Len(options)
    THEN Chosen(options[idx + 1].label, options[idx + 1].wkt)
    ELSE ValueError("Index out of range.")

\* the numeric-index branch; Python's options[idx - 1] is options[idx] here
index_choice(idx, options) ==
    IF 1 <= idx /\ idx <= Len(options)
    THEN Chosen(options[idx].label, options[idx].wkt)
    ELSE ValueError("Index out of range.")

\* the range test with the upper limit one too far
ntm_in_range_to_21(zone) == 5 <= zone /\ zone <= 21

\* line 165: 5 <= zone <= 20
ntm_in_range(zone) == 5 <= zone /\ zone <= 20

parse_choice(s0, options) ==
    LET s == strip(s0)
        t == remove_spaces(upper(s))
    IN  IF isdigit(s) THEN index_choice(DigitsToInt(s), options)
        ELSE IF match_wgs_utm(t).matched
        THEN LET r == wkt_utm_wgs84(match_wgs_utm(t).zone)
             IN  Chosen(r.name \o " (WKT built)", r.wkt)
        ELSE IF match_euref_utm(t).matched
        THEN LET r == wkt_utm_euref89(match_euref_utm(t).zone)
             IN  Chosen(r.name \o " (WKT built)", r.wkt)
        ELSE IF match_ntm(t).matched
        THEN IF ~ntm_in_range(match_ntm(t).zone)
             THEN ValueError("NTM zone must be 5-20 for mainland Norway.")
             ELSE LET r == wkt_ntm(match_ntm(t).zone)
                  IN  Chosen(r.name \o " (WKT built)", r.wkt)
        ELSE ValueError("Unrecognized input.")

----------------------------------------------------------------------------
(* makePrj4shp.py: the selection tokens the run is tried on *)

TokPrefixes ==
    { <<>>,
      <<"W", "G", "S", "/">>, <<"W", "G", "S", "8", "4", "/">>,
      <<"E", "U", "R", "E", "F", "8", "9", "/">>, <<"E", "T", "R", "S", "8", "9", "/">>,
      <<"w", "g", "s", "8", "4", "/">>, <<"E", "u", "r", "e", "f", "8", "9", "/">>,
      <<"G", "D", "A", "9", "4", "/">> }

TokUtmWords == { <<"U", "T", "M">>, <<"u", "t", "m">> }

TokZoneDigits ==
    { <<"0", "0">>, <<"3", "1">>, <<"3", "2">>, <<"3", "3">>, <<"3", "4">>,
      <<"3", "5">>, <<"3", "6">>, <<"6", "0">>, <<"9", "9">> }

TokNorth == { <<>>, <<"N">>, <<"n">> }

UtmTokens ==
    { p \o u \o z \o n : p \in TokPrefixes, u \in TokUtmWords,
                         z \in TokZoneDigits, n \in TokNorth }

NtmTokens ==
    { p \o z : p \in { <<"N", "T", "M", "/">>, <<"n", "t", "m", "/">> },
               z \in { <<"0">>, <<"4">>, <<"5">>, <<"0", "5">>, <<"9">>, <<"1", "0">>,
                       <<"2", "0">>, <<"2", "1">>, <<"9", "9">> } }

IndexTokens ==
    { <<"0">>, <<"1">>, <<"6">>, <<"7">>, <<"2", "2">>, <<"2", "3">>, <<"0", "0", "7">>,
      <<" ", "7", " ">> }

OtherTokens ==
    { <<>>, <<"U", "T", "M", "3">>, <<"U", "T", "M", "3", "3", "3">>, <<"W", "G", "S", "8", "4", "U", "T", "M", "3", "3">>,
      <<"N", "T", "M", "/">>, <<"N", "T", "M", "/", "1", "0", "0">>, <<"U", "T", "M", "3", "3", "S">>,
      <<" ", "U", "T", "M", " ", "3", "3", " ">>, <<"W", "G", "S", " ", "8", "4", "/", "U", "T", "M", " ", "3", "2", " ", "N">>,
      <<"N", "T", "M", " ", "/", " ", "1", "0">> }

Tokens == UtmTokens \cup NtmTokens \cup IndexTokens \cup OtherTokens

----------------------------------------------------------------------------
(* makePrj4shp.py: write_sidecars and main *)

CpgContents == {Absent, "UTF-8", "ISO-8859-1"}

PrjContents == {Absent, "LOCAL_CS[\"old\"]"}

\* where an OSError may strike inside write_sidecars
SidecarFaults == {"none", "open_prj", "open_cpg"}

\* write_sidecars(shp_path, wkt) on shapefile number i; raised tells whether
\* the call ended by an exception
write_sidecars(i, wkt, fault, fs) ==
    IF fault = "open_prj"
    THEN [prj |-> fs.prj, cpg |-> fs.cpg, log |-> fs.log, raised |-> TRUE]
    ELSE IF fault = "open_cpg"
    THEN [prj    |-> [fs.prj EXCEPT ![i] = wkt \o "\n"],
          cpg    |-> fs.cpg,
          log    |-> Append(fs.log, <<i, "prj">>),
          raised |-> TRUE]
    ELSE [prj    |-> [fs.prj EXCEPT ![i] = wkt \o "\n"],
          cpg    |-> [fs.cpg EXCEPT ![i] = CPG_CONTENT],
          log    |-> fs.log \o << <<i, "prj">>, <<i, "cpg">> >>,
          raised |-> FALSE]

NoSelection == [ok |-> FALSE, label |-> "", wkt |-> "", error |-> "<none>"]

\* main, lines 239-252: the folder check, the menu and the prompt
MainPrompt ==
    /\ mpc = "start"
    /\ \E isdir \in BOOLEAN :
         IF ~isdir
         THEN /\ mpc' = "exit1"
              /\ UNCHANGED choice
         ELSE \E typed \in Tokens :
                /\ choice' = strip(typed)
                /\ mpc' = "prompted"
    /\ UNCHANGED <<selection, prj, cpg, shpIdx, sidecarLog>>
    /\ UNCHANGED <<dxfVars, recVars, batchVars>>

\* main, lines 254-260
MainParse_goes_on ==
    /\ mpc = "prompted"
    /\ selection' = parse_choice(choice, build_options)
    /\ mpc' = "selected"
    /\ UNCHANGED <<choice, prj, cpg, shpIdx, sidecarLog>>
    /\ UNCHANGED <<dxfVars, recVars, batchVars>>

MainParse ==
    /\ mpc = "prompted"
    /\ selection' = parse_choice(choice, build_options)
    /\ mpc' = IF selection'.ok THEN "selected" ELSE "exit2"
    /\ UNCHANGED <<choice, prj, cpg, shpIdx, sidecarLog>>
    /\ UNCHANGED <<dxfVars, recVars, batchVars>>

\* main, lines 262-265
MainFind ==
    /\ mpc = "selected"
    /\ mpc' = IF Len(cpg) = 0 THEN "exit0" ELSE "writing"
    /\ shpIdx' = 1
    /\ UNCHANGED <<choice, selection, prj, cpg, sidecarLog>>
    /\ UNCHANGED <<dxfVars, recVars, batchVars>>

\* main, lines 267-271: one turn of the loop, the except clause included
MainWrite ==
    /\ mpc = "writing"
    /\ shpIdx <= Len(cpg)
    /\ \E fault \in SidecarFaults :
         LET r == write_sidecars(shpIdx, selection.wkt, fault,
                                 [prj |-> prj, cpg |-> cpg, log |-> sidecarLog])
         IN  /\ prj' = r.prj
             /\ cpg' = r.cpg
             /\ sidecarLog' = r.log
    /\ shpIdx' = shpIdx + 1
    /\ UNCHANGED <<choice, mpc, selection>>
    /\ UNCHANGED <<dxfVars, recVars, batchVars>>

\* main, line 273
MainDone ==
    /\ mpc = "writing"
    /\ shpIdx > Len(cpg)
    /\ mpc' = "done"
    /\ UNCHANGED <<choice, selection, prj, cpg, shpIdx, sidecarLog>>
    /\ UNCHANGED <<dxfVars, recVars, batchVars>>

\* the CRS tool not started
IdleCrs ==
    /\ choice = <<>>
    /\ mpc = "idle"
    /\ selection = NoSelection
    /\ prj = <<>>
    /\ cpg = <<>>
    /\ shpIdx = 0
    /\ sidecarLog = <<>>

InitCrs ==
    /\ choice = <<>>
    /\ mpc = "start"
    /\ selection = NoSelection
    /\ \E n \in 0..MaxShp :
         /\ prj \in [1..n -> PrjContents]
         /\ cpg \in [1..n -> CpgContents]
    /\ shpIdx = 0
    /\ sidecarLog = <<>>
    /\ IdleDxf
    /\ IdleRec
    /\ IdleBatch

NextCrs == MainPrompt \/ MainParse \/ MainFind \/ MainWrite \/ MainDone

SpecCrs == InitCrs /\ [][NextCrs]_vars

----------------------------------------------------------------------------
(* Claims about the CRS selection and the sidecar files *)

Parsed == mpc \in {"selected", "exit2", "exit0", "writing", "done"}

\* the token as parse_choice normalises it before matching
NormChoice == remove_spaces(upper(strip(choice)))

FamilyMatch ==
    IF match_wgs_utm(NormChoice).matched THEN match_wgs_utm(NormChoice)
    ELSE match_euref_utm(NormChoice)

ValidUtmZone(z) == \E i \in 1..Len(UtmZones) : UtmZones[i] = z

\* C2: a token that matches one of the two UTM family patterns and whose zone
\* is not 32, 33 or 35 makes parse_choice fail: no CRS is selected.
C2_UtmZoneOutsideCatalogFails ==
    (Parsed /\ ~isdigit(choice) /\ FamilyMatch.matched
        /\ ~ValidUtmZone(FamilyMatch.zone))
    => ~selection.ok

CatalogKeys == [i \in 1..Len(build_options) |-> build_options[i].key]

ExpectedKeys ==
    << "EUREF89/UTM32", "EUREF89/UTM33", "EUREF89/UTM35",
       "WGS84/UTM32", "WGS84/UTM33", "WGS84/UTM35",
       "NTM/5", "NTM/6", "NTM/7", "NTM/8", "NTM/9", "NTM/10", "NTM/11", "NTM/12",
       "NTM/13", "NTM/14", "NTM/15", "NTM/16", "NTM/17", "NTM/18", "NTM/19",
       "NTM/20" >>

SelectedEntry(i) ==
    /\ selection.ok
    /\ selection.label = build_options[i].label
    /\ selection.wkt = build_options[i].wkt

\* C3 as stated: the token "7" selects the 7th catalog entry and that entry
\* is WGS84/UTM35.
C3_SevenIsWgs84Utm35 ==
    (Parsed /\ choice = <<"7">>)
    => /\ CatalogKeys = ExpectedKeys
       /\ SelectedEntry(7)
       /\ build_options[7].key = "WGS84/UTM35"

\* C3 amended: the catalog has the 22 entries in the fixed order, the token
\* "7" selects the 7th entry, and the 7th entry is NTM/5 (WGS84/UTM35 is the
\* 6th).
C3_SevenIsSeventhEntryNtm5 ==
    (Parsed /\ choice = <<"7">>)
    => /\ CatalogKeys = ExpectedKeys
       /\ SelectedEntry(7)
       /\ build_options[7].key = "NTM/5"
       /\ build_options[6].key = "WGS84/UTM35"
       /\ selection.wkt = wkt_ntm(5).wkt

C3_Witness == mpc = "selected" /\ choice = <<"7">> /\ selection.ok

\* C5: a .cpg file that exists before a sidecar step has the same content
\* after it.
C5_ExistingCpgKept ==
    [][\A i \in DOMAIN cpg : cpg[i] # Absent => cpg'[i] = cpg[i]]_vars

\* C11: when parse_choice fails, the run ends before any sidecar file is
\* written: no .prj and no .cpg is written for any shapefile, and the run
\* never enters the loop over the shapefiles.
C11_NoSidecarAfterFailedSelection ==
    (Parsed /\ ~selection.ok) =>
        /\ mpc = "exit2"
        /\ sidecarLog = <<>>
        /\ shpIdx = 0

C11_Witness ==
    /\ mpc = "exit2"
    /\ ~selection.ok
    /\ Len(cpg) = MaxShp
    /\ sidecarLog = <<>>

ZoneText(z) == <<DigitChars[(z \div 10) + 1], DigitChars[(z % 10) + 1]>>

\* the spellings of a UTM token for zone z behind one of the given prefixes
UtmForms(prefixes, z) ==
    { p \o u \o ZoneText(z) \o n : p \in prefixes, u \in TokUtmWords, n \in TokNorth }

EurefPrefixes == { <<>>, <<"E", "U", "R", "E", "F", "8", "9", "/">>, <<"E", "T", "R", "S", "8", "9", "/">>, <<"E", "u", "r", "e", "f", "8", "9", "/">> }

WgsPrefixes == { <<"W", "G", "S", "/">>, <<"W", "G", "S", "8", "4", "/">>, <<"w", "g", "s", "8", "4", "/">> }

\* C13: for each zone of 32, 33, 35, a bare UTM token and one with an EUREF89/
\* or ETRS89/ prefix, with or without N, in any letter case, selects the
\* projection of the EUREF89 catalog entry of the zone and not that of the
\* WGS84 entry; one with a WGS/ or WGS84/ prefix selects the projection of the
\* WGS84 entry.
C13_BareUtmIsEuref89 ==
    Parsed =>
        \A i \in 1..3 :
            /\ choice \in UtmForms(EurefPrefixes, UtmZones[i]) =>
                   /\ selection.ok
                   /\ build_options[i].key = "EUREF89/UTM" \o ToString(UtmZones[i])
                   /\ selection.wkt = build_options[i].wkt
                   /\ selection.wkt # build_options[i + 3].wkt
                   /\ selection.label = wkt_utm_euref89(UtmZones[i]).name \o " (WKT built)"
            /\ choice \in UtmForms(WgsPrefixes, UtmZones[i]) =>
                   /\ selection.ok
                   /\ build_options[i + 3].key = "WGS84/UTM" \o ToString(UtmZones[i])
                   /\ selection.wkt = build_options[i + 3].wkt
                   /\ selection.wkt # build_options[i].wkt

C13_Witness ==
    /\ mpc = "selected"
    /\ choice = <<"u", "t", "m", "3", "3", "n">>
    /\ selection.wkt = build_options[2].wkt

\* the NTM tokens tried, each with the number its digits spell
NtmCases ==
    { [digits |-> <<"0">>, z |-> 0], [digits |-> <<"4">>, z |-> 4],
      [digits |-> <<"5">>, z |-> 5], [digits |-> <<"0", "5">>, z |-> 5],
      [digits |-> <<"9">>, z |-> 9], [digits |-> <<"1", "0">>, z |-> 10],
      [digits |-> <<"2", "0">>, z |-> 20], [digits |-> <<"2", "1">>, z |-> 21],
      [digits |-> <<"9", "9">>, z |-> 99] }

\* C14: a token NTM/<z> of 1 or 2 digits selects the NTM zone z exactly when
\* 5 <= z <= 20 and fails with the range error otherwise.
C14_NtmRange ==
    Parsed =>
        \A c \in NtmCases :
            choice \in { <<"N", "T", "M", "/">> \o c.digits, <<"n", "t", "m", "/">> \o c.digits } =>
                /\ selection.ok <=> (5 <= c.z /\ c.z <= 20)
                /\ selection.ok => selection.wkt = wkt_ntm(c.z).wkt
                /\ ~selection.ok =>
                       selection.error = "NTM zone must be 5-20 for mainland Norway."

C14_Witness ==
    /\ mpc = "exit2"
    /\ choice = <<"N", "T", "M", "/", "2", "1">>
    /\ selection.error = "NTM zone must be 5-20 for mainland Norway."

----------------------------------------------------------------------------
(* Python values and text operations shared by the two converters *)

\* an attribute value or a field of an object: a str, an int or None
Str(s) == [t |-> "str", s |-> s, n |-> 0]

Int_(n) == [t |-> "int", s |-> <<>>, n |-> n]

None == [t |-> "none", s |-> <<>>, n |-> 0]

IntOk(n) == [ok |-> TRUE, val |-> n]

IntFail == [ok |-> FALSE, val |-> 0]

\* int(<str>): surrounding whitespace and one sign are accepted; anything
\* else than digits raises ValueError ("_" is not in the alphabet used here)
int_of_text(s) ==
    LET u    == strip(s)
        sgn  == Len(u) > 0 /\ u[1] \in {"+", "-"}
        body == IF sgn THEN DropPrefix(u, 1) ELSE u
    IN  IF isdigit(body)
        THEN IntOk(IF sgn /\ u[1] = "-" THEN 0 - DigitsToInt(body)
                   ELSE DigitsToInt(body))
        ELSE IntFail

\* int(<value>): TypeError on None
int_of(v) ==
    IF v.t = "int" THEN IntOk(v.n)
    ELSE IF v.t = "str" THEN int_of_text(v.s)
    ELSE IntFail

\* str.split(sep) for a one-character separator
RECURSIVE split(_, _)
split(s, sep) ==
    IF \A i \in 1..Len(s) : s[i] # sep THEN <<s>>
    ELSE LET k == CHOOSE i \in 1..Len(s) :
                     s[i] = sep /\ \A j \in 1..(i - 1) : s[j] # sep
         IN  <<SubSeq(s, 1, k - 1)>> \o split(SubSeq(s, k + 1, Len(s)), sep)

\* the decimal text of a non-negative int, as an f-string prints it
RECURSIVE format_int(_)
format_int(n) ==
    IF n < 10 THEN <<DigitChars[n + 1]>>
    ELSE format_int(n \div 10) \o <<DigitChars[(n % 10) + 1]>>

InByte(n) == 0 <= n /\ n <= 255

Black == <<0, 0, 0>>

\* ezdxf.colors.int2rgb
int2rgb(v) == <<(v \div 65536) % 256, (v \div 256) % 256, v % 256>>

\* ezdxf.colors.rgb2int
rgb2int(c) == c[1] * 65536 + c[2] * 256 + c[3]

\* the entries of the indexed-color table that the inputs below use
AciKnown == {1, 2, 3, 4, 5, 6, 7, 8, 9, 250, 251, 252, 253, 254, 255}

AciColor ==
    [i \in AciKnown |->
        CASE i = 1 -> <<255, 0, 0>>
          [] i = 2 -> <<255, 255, 0>>
          [] i = 3 -> <<0, 255, 0>>
          [] i = 4 -> <<0, 255, 255>>
          [] i = 5 -> <<0, 0, 255>>
          [] i = 6 -> <<255, 0, 255>>
          [] i = 7 -> <<255, 255, 255>>
          [] i = 8 -> <<65, 65, 65>>
          [] i = 9 -> <<128, 128, 128>>
          [] i = 250 -> <<51, 51, 51>>
          [] i = 251 -> <<80, 80, 80>>
          [] i = 252 -> <<105, 105, 105>>
          [] i = 253 -> <<130, 130, 130>>
          [] i = 254 -> <<190, 190, 190>>
          [] i = 255 -> <<255, 255, 255>>]

\* ezdxf.colors.aci2rgb: a table of the indices 1..255; an index past the
\* table raises IndexError
aci2rgb(i) ==
    IF 1 <= i /\ i <= 255
    THEN [ok |-> TRUE, rgb |-> AciColor[i]]
    ELSE [ok |-> FALSE, rgb |-> Black]

----------------------------------------------------------------------------
(* dxf2shp.py: entity_rgb *)

Returned(rgb, lookups) == [raised |-> FALSE, rgb |-> rgb, lookups |-> lookups]

Raised(lookups) == [raised |-> TRUE, rgb |-> Black, lookups |-> lookups]

\* step 3 of entity_rgb: the layer color, inside try/except
layer_rgb(d, layers) ==
    LET lay == IF d.has_layer /\ d.layer # <<>> THEN d.layer ELSE <<"0">>
    IN  IF lay \notin DOMAIN layers THEN Returned(Black, <<>>)
        ELSE LET idx == IF layers[lay] = 0 THEN 7 ELSE layers[lay]
             IN  IF aci2rgb(idx).ok THEN Returned(aci2rgb(idx).rgb, <<idx>>)
                 ELSE Returned(Black, <<idx>>)

\* the sentinel test of step 2 with the 256 forgotten
entity_aci_passes_bylayer(d) ==
    LET aci == IF d.has_color /\ d.color # 0 THEN d.color ELSE 256
    IN  [aci |-> aci, explicit |-> aci # 0]

\* step 2 of entity_rgb, lines 163-164: the entity's own index and whether
\* it is an explicit one
entity_aci(d) ==
    LET aci == IF d.has_color /\ d.color # 0 THEN d.color ELSE 256
    IN  [aci |-> aci, explicit |-> aci \notin {0, 256}]

\* entity_rgb(ent) with doc.layers; lookups lists the arguments aci2rgb was
\* called with
entity_rgb(d, layers) ==
    IF d.has_true_color THEN Returned(int2rgb(d.true_color), <<>>)
    ELSE IF entity_aci(d).explicit
    THEN IF aci2rgb(entity_aci(d).aci).ok
         THEN Returned(aci2rgb(entity_aci(d).aci).rgb, <<entity_aci(d).aci>>)
         ELSE Raised(<<entity_aci(d).aci>>)
    ELSE layer_rgb(d, layers)

----------------------------------------------------------------------------
(* shp2dxf.py: _parse_rgb_from_record *)

Found(rgb) == [ok |-> TRUE, rgb |-> rgb]

NotFound == [ok |-> FALSE, rgb |-> Black]

\* name_to_idx.get(name): the dict keeps the last index of a repeated name;
\* 0 stands for None
name_to_idx(fields_lower, name) ==
    LET hits == {i \in 1..Len(fields_lower) : fields_lower[i] = name}
    IN  IF hits = {} THEN 0 ELSE CHOOSE i \in hits : \A j \in hits : j <= i

\* get_val(*candidates): the value of the first candidate that is a field
RECURSIVE get_val(_, _, _)
get_val(rec, fields_lower, candidates) ==
    IF Len(candidates) = 0 THEN None
    ELSE IF name_to_idx(fields_lower, lower(Head(candidates))) # 0
    THEN rec[name_to_idx(fields_lower, lower(Head(candidates)))]
    ELSE get_val(rec, fields_lower, Tail(candidates))

\* three texts, each through int(), all within 0..255
triple_of_texts(parts) ==
    IF /\ Len(parts) = 3
       /\ \A i \in 1..3 : int_of_text(parts[i]).ok /\ InByte(int_of_text(parts[i]).val)
    THEN Found(<<int_of_text(parts[1]).val, int_of_text(parts[2]).val,
                 int_of_text(parts[3]).val>>)
    ELSE NotFound

\* step 1, lines 43-54: the RGB_text column
rgb_text_step(rec, fields_lower) ==
    LET idx == name_to_idx(fields_lower, <<"r", "g", "b", "_", "t", "e", "x", "t">>)
        val == rec[idx]
    IN  IF idx # 0 /\ val.t = "str"
           /\ startswith(lower(val.s), <<"r", "g", "b", "(">>) /\ endswith(val.s, <<")">>)
        THEN triple_of_texts(split(SubSeq(val.s, 5, Len(val.s) - 1), ","))
        ELSE NotFound

\* step 2, lines 64-75: the integer columns r, g, b
rgb_fields_step(rec, fields_lower) ==
    LET r == get_val(rec, fields_lower, <<<<"r">>>>)
        g == get_val(rec, fields_lower, <<<<"g">>>>)
        b == get_val(rec, fields_lower, <<<<"b">>>>)
    IN  IF /\ r.t # "none" /\ g.t # "none" /\ b.t # "none"
           /\ int_of(r).ok /\ int_of(g).ok /\ int_of(b).ok
           /\ InByte(int_of(r).val) /\ InByte(int_of(g).val) /\ InByte(int_of(b).val)
        THEN Found(<<int_of(r).val, int_of(g).val, int_of(b).val>>)
        ELSE NotFound

IsHexChar(c) ==
    IsDigitChar(c) \/ c \in {"a", "b", "c", "d", "e", "f", "A", "B", "C", "D", "E", "F"}

HexVal(c) ==
    IF IsDigitChar(c) THEN DigitVal(c)
    ELSE 9 + (CHOOSE i \in 1..6 : LowerChars[i] = LowerChar(c))

\* steps 3 and 4, lines 78-100: the color / colour / clr column
color_text_step(rec, fields_lower) ==
    LET color_val == get_val(rec, fields_lower,
                             <<<<"c", "o", "l", "o", "r">>, <<"c", "o", "l", "o", "u", "r">>, <<"c", "l", "r">>>>)
        s0   == strip(color_val.s)
        s    == IF startswith(s0, <<"#">>) THEN DropPrefix(s0, 1) ELSE s0
        bare == SelectSeq(s, LAMBDA c : c \notin {"(", ")"})
        csv  == [i \in 1..Len(split(bare, ",")) |-> strip(split(bare, ",")[i])]
    IN  IF color_val.t # "str" THEN NotFound
        ELSE IF Len(s) = 6 /\ \A i \in 1..6 : IsHexChar(s[i])
        THEN Found(<<16 * HexVal(s[1]) + HexVal(s[2]),
                     16 * HexVal(s[3]) + HexVal(s[4]),
                     16 * HexVal(s[5]) + HexVal(s[6])>>)
        ELSE triple_of_texts(csv)

\* step 5, lines 103-111: the aci / autocadcolorindex column
aci_step(rec, fields_lower) ==
    LET aci_val == get_val(rec, fields_lower,
                           <<<<"a", "c", "i">>, <<"a", "u", "t", "o", "c", "a", "d", "c", "o", "l", "o", "r", "i", "n", "d", "e", "x">>>>)
    IN  IF /\ aci_val.t # "none"
           /\ int_of(aci_val).ok
           /\ int_of(aci_val).val \notin {0, 256}
           /\ aci2rgb(int_of(aci_val).val).ok
        THEN Found(aci2rgb(int_of(aci_val).val).rgb)
        ELSE NotFound

\* the chain with the integer columns tried before the RGB_text column
parse_rgb_fields_first(rec, fields_lower) ==
    IF rgb_fields_step(rec, fields_lower).ok THEN rgb_fields_step(rec, fields_lower).rgb
    ELSE IF rgb_text_step(rec, fields_lower).ok THEN rgb_text_step(rec, fields_lower).rgb
    ELSE IF color_text_step(rec, fields_lower).ok THEN color_text_step(rec, fields_lower).rgb
    ELSE IF aci_step(rec, fields_lower).ok THEN aci_step(rec, fields_lower).rgb
    ELSE Black

\* _parse_rgb_from_record(rec, field_names_lower)
parse_rgb_from_record(rec, fields_lower) ==
    IF rgb_text_step(rec, fields_lower).ok THEN rgb_text_step(rec, fields_lower).rgb
    ELSE IF rgb_fields_step(rec, fields_lower).ok THEN rgb_fields_step(rec, fields_lower).rgb
    ELSE IF color_text_step(rec, fields_lower).ok THEN color_text_step(rec, fields_lower).rgb
    ELSE IF aci_step(rec, fields_lower).ok THEN aci_step(rec, fields_lower).rgb
    ELSE Black

----------------------------------------------------------------------------
(* dxf2shp.py: the color text and the attribute table *)

\* line 181: rgb_text = f"rgb({R},{G},{B})"
rgb_text_of(c) ==
    <<"r", "g", "b", "(">> \o format_int(c[1]) \o <<",">> \o format_int(c[2]) \o <<",">>
        \o format_int(c[3]) \o <<")">>

\* size of the RGB_text column with one character less
RGB_TEXT_SIZE_short == 16 - 1

\* WriterSet._init, line 126: w.field("RGB_text", "C", size=16)
RGB_TEXT_SIZE == 16

\* a character column of the attribute table: the text is cut to the column
\* size when written and read back without surrounding blanks
dbf_text(text, size) ==
    strip(IF Len(text) > size THEN SubSeq(text, 1, size) ELSE text)

\* WriterSet._init, lines 122-126: the field names of the three outputs
WRITER_FIELDS == <<<<"l", "a", "y", "e", "r">>, <<"e", "t", "y", "p", "e">>, <<"R", "G", "B", "_", "t", "e", "x", "t">>>>

----------------------------------------------------------------------------
(* dxf2shp.py: geometry of one entity *)

T_POINT == <<"P", "O", "I", "N", "T">>

T_LINE == <<"L", "I", "N", "E">>

T_LWPOLYLINE == <<"L", "W", "P", "O", "L", "Y", "L", "I", "N", "E">>

T_POLYLINE == <<"P", "O", "L", "Y", "L", "I", "N", "E">>

\* is_closed(e): an attribute counts only when it is a bool
is_closed(e) ==
    IF e.closed \in {"True", "False"} THEN e.closed = "True"
    ELSE IF e.is_closed \in {"True", "False"} THEN e.is_closed = "True"
    ELSE FALSE

\* the first point appended without looking at the last
close_if_needed_always(pts) ==
    IF Len(pts) > 0 THEN pts \o <<pts[1]>> ELSE pts

close_if_needed(pts) ==
    IF Len(pts) > 0 /\ pts[1] # pts[Len(pts)] THEN pts \o <<pts[1]>> ELSE pts

\* lwpolyline_xy(e): the vertex list, or ValueError for a point container
\* that is neither callable nor iterable (line 64)
lwpolyline_xy(e) ==
    IF e.fmt = "unsupported" THEN [raised |-> TRUE, pts |-> <<>>]
    ELSE [raised |-> FALSE, pts |-> e.pts]

polyline_xy(e) == [raised |-> FALSE, pts |-> e.pts]

\* the polygon test without the closed flag
route_polyline_any_ring(closed, pts) ==
    IF Len(pts) >= 3
    THEN [kind |-> "polygons", shapeType |-> "POLYGON", part |-> close_if_needed(pts)]
    ELSE [kind |-> "lines", shapeType |-> "POLYLINE", part |-> pts]

\* lines 199-208 and 212-221: polygons or lines for a polyline-like entity
route_polyline(closed, pts) ==
    IF closed /\ Len(pts) >= 3
    THEN [kind |-> "polygons", shapeType |-> "POLYGON", part |-> close_if_needed(pts)]
    ELSE [kind |-> "lines", shapeType |-> "POLYLINE", part |-> pts]

\* lines 183-221: the bucket and the single part of one entity; raised when
\* reading its vertices raises
route(e) ==
    IF e.et = T_POINT
    THEN [raised |-> FALSE, kind |-> "points", shapeType |-> "POINT", part |-> e.pts]
    ELSE IF e.et = T_LINE
    THEN [raised |-> FALSE, kind |-> "lines", shapeType |-> "POLYLINE", part |-> e.pts]
    ELSE LET xy == IF e.et = T_LWPOLYLINE THEN lwpolyline_xy(e) ELSE polyline_xy(e)
             r  == route_polyline(is_closed(e), xy.pts)
         IN  [raised |-> xy.raised, kind |-> r.kind, shapeType |-> r.shapeType,
              part |-> r.part]

LAYER_SIZE == 64

ETYPE_SIZE == 16

\* w.record(layer, et, rgb_text) as the attribute table keeps it
writer_record(layer, et, rgb) ==
    << Str(dbf_text(layer, LAYER_SIZE)), Str(dbf_text(et, ETYPE_SIZE)),
       Str(dbf_text(rgb_text_of(rgb), RGB_TEXT_SIZE)) >>

\* w.point / w.line / w.poly with one part: the flat point list and the
\* start index of each part
writer_shape(shapeType, part) ==
    [shapeType |-> shapeType, points |-> part, parts |-> <<0>>]

----------------------------------------------------------------------------
(* shp2dxf.py: one shapefile back to drawing entities *)

\* _split_parts(shape): the slices pts[a:b] between successive start indices
split_parts(shape) ==
    LET idxs == shape.parts \o <<Len(shape.points)>>
    IN  [i \in 1..Len(shape.parts) |->
            SubSeq(shape.points, idxs[i] + 1, idxs[i + 1])]

\* lines 190-197 for one part; <<>> when the part is empty
part_entity(part, closed, attribs) ==
    IF Len(part) = 0 THEN <<>>
    ELSE << [etype      |-> "LWPOLYLINE",
             pts        |-> IF closed /\ part[1] # part[Len(part)]
                            THEN part \o <<part[1]>> ELSE part,
             close      |-> closed,
             true_color |-> attribs.true_color,
             layer      |-> attribs.layer] >>

RECURSIVE parts_entities(_, _, _)
parts_entities(parts, closed, attribs) ==
    IF Len(parts) = 0 THEN <<>>
    ELSE part_entity(Head(parts), closed, attribs)
            \o parts_entities(Tail(parts), closed, attribs)

\* str(<value>) of a non-negative int or of None
str_of(v) ==
    IF v.t = "str" THEN v.s
    ELSE IF v.t = "int" THEN format_int(v.n)
    ELSE <<"N", "o", "n", "e">>

\* list.index(name): the first position of the name
first_index(fields_lower, name) ==
    CHOOSE i \in 1..Len(fields_lower) :
        fields_lower[i] = name /\ \A j \in 1..(i - 1) : fields_lower[j] # name

\* lines 159-179: the layer and the true color of one shape record; a layer
\* of "" is not applied
record_attribs(rec, fields_lower) ==
    LET LAYER   == <<"l", "a", "y", "e", "r">>
        present == \E i \in 1..Len(fields_lower) : fields_lower[i] = LAYER
        name    == str_of(rec[first_index(fields_lower, LAYER)])
    IN  [true_color |-> rgb2int(parse_rgb_from_record(rec, fields_lower)),
         layer      |-> IF present
                        THEN SubSeq(name, 1, IF Len(name) > 255 THEN 255 ELSE Len(name))
                        ELSE <<>>]

\* lines 181-202: the entities added for one shape record
shape_entities(shape, rec, fields_lower) ==
    LET attribs == record_attribs(rec, fields_lower)
    IN  IF shape.shapeType = "POINT"
        THEN IF Len(shape.points) > 0
             THEN << [etype |-> "POINT", pts |-> <<shape.points[1]>>, close |-> FALSE,
                      true_color |-> attribs.true_color, layer |-> attribs.layer] >>
             ELSE <<>>
        ELSE IF shape.shapeType \in {"POLYLINE", "POLYGON"}
        THEN parts_entities(split_parts(shape), shape.shapeType = "POLYGON", attribs)
        ELSE <<>>

\* lines 155-202: the loop over the shape records of one file
RECURSIVE file_entities(_, _, _)
file_entities(shps, recs, fields_lower) ==
    IF Len(shps) = 0 \/ Len(recs) = 0 THEN <<>>
    ELSE shape_entities(Head(shps), Head(recs), fields_lower)
            \o file_entities(Tail(shps), Tail(recs), fields_lower)

\* line 148: fields_lower = [f.lower() for f in fields]
fields_lower_of(fields) == [i \in 1..Len(fields) |-> lower(fields[i])]

----------------------------------------------------------------------------
(* dxf2shp.py: the drawings convert_one_dxf is run on *)

PA == <<0, 0>>

PB == <<1, 0>>

PC == <<1, 1>>

PD == <<0, 1>>

PtsSamples ==
    { <<>>, <<PA>>, <<PA, PB>>, <<PA, PB, PA>>, <<PA, PB, PC>>, <<PA, PB, PC, PA>>,
      <<PA, PB, PC, PD>> }

\* true color (255,0,0) on layer A
DxfRed ==
    [has_true_color |-> TRUE, true_color |-> 16711680, has_color |-> FALSE, color |-> 0,
     has_layer |-> TRUE, layer |-> <<"A">>]

\* no color of its own, on layer B
DxfByLayer ==
    [has_true_color |-> FALSE, true_color |-> 0, has_color |-> FALSE, color |-> 0,
     has_layer |-> TRUE, layer |-> <<"B">>]

\* color 257 (BYOBJECT), on layer 0
DxfByObject ==
    [has_true_color |-> FALSE, true_color |-> 0, has_color |-> TRUE, color |-> 257,
     has_layer |-> TRUE, layer |-> <<"0">>]

Entity(et, pts, closed, isclosed, fmt, d) ==
    [et |-> et, pts |-> pts, closed |-> closed, is_closed |-> isclosed, fmt |-> fmt,
     dxf |-> d]

Entities ==
    { Entity(T_POINT, <<PA>>, "other", "other", "xy", d) :
        d \in {DxfRed, DxfByLayer, DxfByObject} }
    \cup { Entity(T_LINE, <<PA, PB>>, "other", "other", "xy", DxfByLayer) }
    \cup { Entity(T_LWPOLYLINE, pts, c, c, "xy", DxfByLayer) :
             pts \in PtsSamples, c \in {"True", "False"} }
    \cup { Entity(T_LWPOLYLINE, <<PA, PB, PC>>, "True", "True", "unsupported", DxfByLayer) }
    \cup { Entity(T_POLYLINE, pts, "other", c, "xy", DxfRed) :
             pts \in {<<PA, PB>>, <<PA, PB, PC>>, <<PA, PB, PC, PA>>},
             c \in {"True", "False", "other"} }

LayerTables ==
    { (<<"0">> :> 7) @@ (<<"A">> :> 1) @@ (<<"B">> :> 5),
      (<<"0">> :> 0) }

\* where an OSError may strike while one feature is written
WriteFaults == {"none", "open", "shape", "record"}

----------------------------------------------------------------------------
(* dxf2shp.py: convert_one_dxf *)

DBF_CPG == "UTF-8"

\* write_cpg_if_missing: the content of the .cpg file afterwards
write_cpg_if_missing(content) == IF content = Absent THEN DBF_CPG ELSE content

KindPos(k) == CHOOSE i \in 1..3 : Kinds[i] = k

\* WriterSet.close_all: the writers are closed in order; when the close of
\* one raises, its .cpg is still written (finally) and the loop is left
close_all(ws, cpgs, failing) ==
    LET stop == IF failing \in KindSet /\ ws[failing] = "open" THEN KindPos(failing)
                ELSE 4
    IN  [writers |-> [k \in KindSet |->
                        IF ws[k] = "open" /\ KindPos(k) < stop THEN "closed" ELSE ws[k]],
         cpg     |-> [k \in KindSet |->
                        IF ws[k] = "open" /\ KindPos(k) <= stop
                        THEN write_cpg_if_missing(cpgs[k]) ELSE cpgs[k]],
         raised  |-> stop <= 3]

\* a get that opens the writers of all three kinds at once
WriterSet_get_opens_all(ws, kind) == [k \in KindSet |-> "open"]

\* WriterSet.get, lines 130-132: the writer of the kind, opened by _init
\* (lines 110-128) when it is still None
WriterSet_get(ws, kind) ==
    [ws EXCEPT ![kind] = IF @ = "none" THEN "open" ELSE @]

\* lines 177-221: one turn of the loop over the entities
ProcessEntity ==
    /\ dpc = "loop"
    /\ nDone < MaxEntities
    /\ \E e \in Entities, fault \in WriteFaults :
         LET c   == entity_rgb(e.dxf, docLayers)
             r   == route(e)
             k   == r.kind
             lay == IF e.dxf.has_layer THEN e.dxf.layer ELSE <<>>
         IN  /\ fault = "open" => (~c.raised /\ ~r.raised /\ writers[k] = "none")
             /\ fault \in {"shape", "record"} => (~c.raised /\ ~r.raised)
             /\ lastRgb' = [called |-> TRUE, d |-> e.dxf, raised |-> c.raised,
                            rgb |-> c.rgb, lookups |-> c.lookups]
             /\ IF c.raised \/ r.raised \/ fault = "open"
                THEN /\ dpc' = "raised"
                     /\ UNCHANGED <<nDone, writers, shapes, records, counts, sources>>
                ELSE /\ writers' = WriterSet_get(writers, k)
                     /\ dpc' = IF fault = "none" THEN "loop" ELSE "raised"
                     /\ shapes' = IF fault = "shape" THEN shapes
                                  ELSE [shapes EXCEPT
                                          ![k] = Append(@, writer_shape(r.shapeType, r.part))]
                     /\ sources' = IF fault = "shape" THEN sources
                                   ELSE [sources EXCEPT ![k] = Append(@, e)]
                     /\ records' = IF fault = "none"
                                   THEN [records EXCEPT
                                           ![k] = Append(@, writer_record(lay, e.et, c.rgb))]
                                   ELSE records
                     /\ counts' = IF fault = "none" THEN [counts EXCEPT ![k] = @ + 1]
                                  ELSE counts
                     /\ nDone' = IF fault = "none" THEN nDone + 1 ELSE nDone
    /\ UNCHANGED <<docLayers, outCpg, backIdx, dxfOut>>
    /\ UNCHANGED <<crsVars, recVars, batchVars>>

\* lines 223-228: the entities are exhausted
CloseAll ==
    /\ dpc = "loop"
    /\ \E failing \in {"none"} \cup {k \in KindSet : writers[k] = "open"} :
         LET r == close_all(writers, outCpg, failing)
         IN  /\ writers' = r.writers
             /\ outCpg' = r.cpg
             /\ dpc' = IF r.raised THEN "raised" ELSE "done"
    /\ UNCHANGED <<docLayers, nDone, shapes, records, counts, sources, lastRgb,
                   backIdx, dxfOut>>
    /\ UNCHANGED <<crsVars, recVars, batchVars>>

----------------------------------------------------------------------------
(* shp2dxf.py: convert_shp_to_dxf run on the shapefiles just written *)

\* the next output file at or after position i, 4 when there is none
NextFile(i) ==
    LET there == {j \in i..3 : writers[Kinds[j]] = "closed"}
    IN  IF there = {} THEN 4 ELSE CHOOSE j \in there : \A l \in there : j <= l

\* lines 134-206: one turn of the loop over the .shp files
BackConvert ==
    /\ dpc = "done"
    /\ NextFile(backIdx + 1) <= 3
    /\ LET k == Kinds[NextFile(backIdx + 1)]
       IN  dxfOut' = [dxfOut EXCEPT
                        ![k] = file_entities(shapes[k], records[k],
                                             fields_lower_of(WRITER_FIELDS))]
    /\ backIdx' = NextFile(backIdx + 1)
    /\ UNCHANGED <<docLayers, dpc, nDone, writers, shapes, records, counts, sources,
                   outCpg, lastRgb>>
    /\ UNCHANGED <<crsVars, recVars, batchVars>>

\* line 211
BackDone ==
    /\ dpc = "done"
    /\ NextFile(backIdx + 1) > 3
    /\ dpc' = "backdone"
    /\ UNCHANGED <<docLayers, nDone, writers, shapes, records, counts, sources,
                   outCpg, lastRgb, backIdx, dxfOut>>
    /\ UNCHANGED <<crsVars, recVars, batchVars>>

Init ==
    /\ docLayers \in LayerTables
    /\ dpc = "loop"
    /\ nDone = 0
    /\ writers = [k \in KindSet |-> "none"]
    /\ shapes = [k \in KindSet |-> <<>>]
    /\ records = [k \in KindSet |-> <<>>]
    /\ counts = [k \in KindSet |-> 0]
    /\ sources = [k \in KindSet |-> <<>>]
    /\ \E old \in {Absent, "ISO-8859-1"} : outCpg = [k \in KindSet |-> old]
    /\ lastRgb = NoCall
    /\ backIdx = 0
    /\ dxfOut = [k \in KindSet |-> <<>>]
    /\ IdleCrs
    /\ IdleRec
    /\ IdleBatch

Next == ProcessEntity \/ CloseAll \/ BackConvert \/ BackDone

Spec == Init /\ [][Next]_vars

----------------------------------------------------------------------------
(* dxf2shp.py: entity_rgb on its own, over every color setting *)

TrueColorSamples == {0, 660510, 16711680}

EntityColorSamples == {0, 1, 5, 7, 255, 256, 257}

LayerNameSamples == { <<>>, <<"0">>, <<"A">>, <<"B">> }

DxfNamespaces ==
    { [has_true_color |-> FALSE, true_color |-> 0, has_color |-> hc.has,
       color |-> hc.val, has_layer |-> hl.has, layer |-> hl.val] :
        hc \in {[has |-> FALSE, val |-> 0]}
                 \cup {[has |-> TRUE, val |-> v] : v \in EntityColorSamples},
        hl \in {[has |-> FALSE, val |-> <<>>]}
                 \cup {[has |-> TRUE, val |-> v] : v \in LayerNameSamples} }
    \cup
    { [has_true_color |-> TRUE, true_color |-> tc, has_color |-> hc.has,
       color |-> hc.val, has_layer |-> TRUE, layer |-> <<"A">>] :
        tc \in TrueColorSamples,
        hc \in {[has |-> FALSE, val |-> 0]}
                 \cup {[has |-> TRUE, val |-> v] : v \in EntityColorSamples} }

LayerColorSamples == {0, 1, 5, 255}

LayerTablesAll ==
    UNION { [names -> LayerColorSamples] : names \in SUBSET { <<"0">>, <<"A">> } }

EntityRgb ==
    /\ dpc = "color"
    /\ \E d \in DxfNamespaces :
         LET c == entity_rgb(d, docLayers)
         IN  lastRgb' = [called |-> TRUE, d |-> d, raised |-> c.raised, rgb |-> c.rgb,
                         lookups |-> c.lookups]
    /\ UNCHANGED <<docLayers, dpc, nDone, writers, shapes, records, counts, sources,
                   outCpg, backIdx, dxfOut>>
    /\ UNCHANGED <<crsVars, recVars, batchVars>>

InitRgb ==
    /\ docLayers \in LayerTablesAll
    /\ dpc = "color"
    /\ nDone = 0
    /\ writers = [k \in KindSet |-> "none"]
    /\ shapes = [k \in KindSet |-> <<>>]
    /\ records = [k \in KindSet |-> <<>>]
    /\ counts = [k \in KindSet |-> 0]
    /\ sources = [k \in KindSet |-> <<>>]
    /\ outCpg = [k \in KindSet |-> Absent]
    /\ lastRgb = NoCall
    /\ backIdx = 0
    /\ dxfOut = [k \in KindSet |-> <<>>]
    /\ IdleCrs
    /\ IdleRec
    /\ IdleBatch

NextRgb == EntityRgb

SpecRgb == InitRgb /\ [][NextRgb]_vars

----------------------------------------------------------------------------
(* shp2dxf.py: _parse_rgb_from_record on its own, over attribute records *)

ChannelSamples == {0, 1, 9, 10, 99, 100, 199, 200, 255}

ColorSamples == {<<r, g, b>> : r \in ChannelSamples, g \in ChannelSamples,
                               b \in ChannelSamples}

\* columns a GIS user may have added next to the three the converter writes
ExtraColumns ==
    { [names |-> <<>>, vals |-> <<>>] }
    \cup { [names |-> <<<<"R">>, <<"G">>, <<"B">>>>,
            vals  |-> <<Int_(r), Int_(200), Int_(b)>>] : r \in {0, 255}, b \in {0, 255} }
    \cup { [names |-> <<<<"c", "o", "l", "o", "r">>>>, vals |-> <<Str(v)>>] :
             v \in { <<"#", "0", "0", "F", "F", "0", "0">>, <<"1", ",", "2", ",", "3">> } }
    \cup { [names |-> <<<<"a", "c", "i">>>>, vals |-> <<Int_(5)>>] }

\* the triples the canonical texts of foreign records are written from
TextTriples == { <<1, 2, 3>>, <<0, 0, 0>>, <<200, 200, 0>>, <<255, 255, 255>> }

\* texts that are not rgb(<int>,<int>,<int>) with the three in 0..255
InvalidRgbTexts ==
    { <<"r", "g", "b", "(", "2", "5", "6", ",", "0", ",", "0", ")">>, <<"r", "g", "b", "(", "1", ",", "2", ")">>, <<"r", "g", "b", "(", "a", ",", "b", ",", "c", ")">>,
      <<"1", ",", "2", ",", "3">>, <<"r", "g", "b", "(", "1", ",", "2", ",", "3">>, <<>> }

\* texts the code accepts beside the canonical form
LooseRgbTexts == { <<"R", "G", "B", "(", "1", ",", "2", ",", "3", ")">>, <<"r", "g", "b", "(", " ", "1", ",", " ", "2", " ", ",", "3", " ", ")">> }

RgbTextValues ==
    { Str(rgb_text_of(c)) : c \in TextTriples }
    \cup { Str(t) : t \in InvalidRgbTexts \cup LooseRgbTexts }
    \cup { None, Int_(5) }

RValues == { None, Int_(0), Int_(200), Int_(256), Str(<<"7">>) }

GValues == { None, Int_(0), Int_(200) }

BValues == { None, Int_(0), Str(<<"x">>) }

ColorValues ==
    { None, Str(<<"#", "F", "F", "8", "0", "0", "0">>), Str(<<"(", "1", "0", ",", " ", "2", "0", ",", " ", "3", "0", ")">>),
      Str(<<"3", "0", "0", ",", "0", ",", "0">>) }

AciValues == { None, Int_(5), Int_(256), Int_(300) }

\* the field names of a foreign shapefile: any column may be missing (it is
\* then another column) and any letter case may be used
Schemas ==
    { <<<<"R", "G", "B", "_", "t", "e", "x", "t">>, <<"R">>, <<"G">>, <<"B">>, <<"c", "o", "l", "o", "r">>, <<"a", "c", "i">>>>,
      <<<<"r", "g", "b", "_", "t", "e", "x", "t">>, <<"r">>, <<"g">>, <<"b">>, <<"C", "o", "l", "o", "u", "r">>, <<"A", "u", "t", "o", "C", "a", "d", "C", "o", "l", "o", "r", "I", "n", "d", "e", "x">>>>,
      <<<<"R", "G", "B", "_", "T", "E", "X", "T">>, <<"R">>, <<"G">>, <<"B">>, <<"c", "l", "r">>, <<"i", "d">>>>,
      <<<<"n", "o", "t", "e">>, <<"R">>, <<"G">>, <<"b">>, <<"c", "o", "l", "o", "r">>, <<"a", "c", "i">>>>,
      <<<<"n", "o", "t", "e">>, <<"x">>, <<"G">>, <<"B">>, <<"m", "e", "m", "o">>, <<"A", "C", "I">>>>,
      <<<<"n", "o", "t", "e">>, <<"x">>, <<"y">>, <<"z">>, <<"m", "e", "m", "o">>, <<"i", "d">>>> }

\* dxf2shp, lines 180-187: a record as the converter writes it for color c
WriteDxfRecord ==
    /\ cpc = "start"
    /\ \E c \in ColorSamples, extra \in ExtraColumns :
         /\ recFields' = WRITER_FIELDS \o extra.names
         /\ recVals' = writer_record(<<"A">>, T_POINT, c) \o extra.vals
         /\ srcColor' = c
    /\ decoded' = <<>>
    /\ cpc' = "ready"
    /\ UNCHANGED <<crsVars, dxfVars, batchVars>>

\* a record of a shapefile that some other program wrote
ForeignRecord ==
    /\ cpc = "start"
    /\ \E names \in Schemas, t \in RgbTextValues, r \in RValues, g \in GValues,
          b \in BValues, cv \in ColorValues, a \in AciValues :
         /\ recFields' = names
         /\ recVals' = <<t, r, g, b, cv, a>>
    /\ srcColor' = <<>>
    /\ decoded' = <<>>
    /\ cpc' = "ready"
    /\ UNCHANGED <<crsVars, dxfVars, batchVars>>

\* shp2dxf, lines 148 and 174
Decode ==
    /\ cpc = "ready"
    /\ decoded' = parse_rgb_from_record(recVals, fields_lower_of(recFields))
    /\ cpc' = "decoded"
    /\ UNCHANGED <<recFields, recVals, srcColor>>
    /\ UNCHANGED <<crsVars, dxfVars, batchVars>>

InitColor ==
    /\ recFields = <<>>
    /\ recVals = <<>>
    /\ srcColor = <<>>
    /\ decoded = <<>>
    /\ cpc = "start"
    /\ IdleCrs
    /\ IdleDxf
    /\ IdleBatch

NextColor == WriteDxfRecord \/ ForeignRecord \/ Decode

SpecColor == InitColor /\ [][NextColor]_vars

----------------------------------------------------------------------------
(* The batch loops: convert_all of dxf2shp.py, convert_shp_to_dxf of shp2dxf.py *)

EXT_DXF == <<".", "d", "x", "f">>

EXT_SHP == <<".", "s", "h", "p">>

\* fn.lower().endswith(".dxf") (dxf2shp.py line 241) and
\* filename.lower().endswith(".shp") (shp2dxf.py line 135)
matches(mode, fn) ==
    IF mode = "dxf2shp" THEN endswith(lower(fn), EXT_DXF)
    ELSE endswith(lower(fn), EXT_SHP)

RECURSIVE entities_raise(_, _)
\* the loop of convert_one_dxf (lines 177-221) as far as raising goes: whether
\* reading the color or the vertices of some entity raises
entities_raise(es, layers) ==
    IF es = <<>> THEN FALSE
    ELSE \/ entity_rgb(Head(es).dxf, layers).raised
         \/ route(Head(es)).raised
         \/ entities_raise(Tail(es), layers)

\* what may fail from outside while one drawing is converted: ezdxf.readfile
\* (line 149), a write to a shapefile writer, close_all (line 223)
DxfFaults == {"none", "read", "write", "close"}

\* what may fail from outside while one shapefile is converted:
\* shapefile.Reader (line 145), doc.saveas (line 205)
ShpFaults == {"none", "read", "save"}

\* whether convert_one_dxf(dxf_path, OUTPUT_DIR) raises
convert_one_dxf_raises(file, fault) ==
    fault # "none" \/ entities_raise(file.entities, file.layers)

\* whether the body of the try of convert_shp_to_dxf (lines 144-206) raises
convert_one_shp_raises(file, fault) == fault # "none"

\* file names as os.listdir gives them
FileNames ==
    { <<"a", ".", "d", "x", "f">>, <<"B", ".", "D", "X", "F">>,
      <<"c", ".", "s", "h", "p">>, <<"D", ".", "S", "h", "p">>,
      <<"e", ".", "t", "x", "t">>, <<"d", "x", "f">> }

GoodPoint == Entity(T_POINT, <<PA>>, "other", "other", "xy", DxfRed)

BadVertices == Entity(T_LWPOLYLINE, <<PA, PB, PC>>, "True", "True", "unsupported", DxfByLayer)

ByObjectPoint == Entity(T_POINT, <<PA>>, "other", "other", "xy", DxfByObject)

DxfContents == { <<>>, <<GoodPoint>>, <<GoodPoint, BadVertices>>, <<ByObjectPoint>> }

BatchLayers == CHOOSE t \in LayerTables : <<"A">> \in DOMAIN t

Files ==
    { [name |-> n, entities |-> es, layers |-> BatchLayers] :
        n \in FileNames, es \in DxfContents }

ValidFile(f) == endswith(lower(f.name), EXT_DXF) \/ f.entities = <<>>

Listings ==
    UNION { { l \in [1..n -> { f \in Files : ValidFile(f) }] :
                \A i, j \in 1..n : i # j => l[i].name # l[j].name } : n \in 0..MaxFiles }

\* how the part before the loop ends: the input directory is missing (return),
\* os.makedirs raises, the output directory is still missing (dxf2shp.py
\* lines 236-238, return), or the loop is entered
StartOutcomes(mode) ==
    IF mode = "dxf2shp" THEN {"nodir", "raised", "noout", "loop"}
    ELSE {"nodir", "raised", "loop"}

\* dxf2shp.py lines 232-240, shp2dxf.py lines 125-134: up to os.listdir
BatchStart ==
    /\ bpc = "start"
    /\ \E o \in StartOutcomes(bmode) : bpc' = o
    /\ bIdx' = 1
    /\ UNCHANGED <<bmode, listing, attempted, failed, converted>>
    /\ UNCHANGED <<crsVars, dxfVars, recVars>>

\* a turn that lets the exception of a file leave the loop
BatchTurn_lets_it_out ==
    /\ bpc = "loop"
    /\ bIdx <= Len(listing)
    /\ bIdx' = bIdx + 1
    /\ IF ~matches(bmode, listing[bIdx].name)
       THEN UNCHANGED <<bpc, attempted, failed, converted>>
       ELSE /\ attempted' = Append(attempted, bIdx)
            /\ \E fault \in (IF bmode = "dxf2shp" THEN DxfFaults ELSE ShpFaults) :
                 LET r == IF bmode = "dxf2shp"
                          THEN convert_one_dxf_raises(listing[bIdx], fault)
                          ELSE convert_one_shp_raises(listing[bIdx], fault)
                 IN  /\ failed' = IF r THEN Append(failed, bIdx) ELSE failed
                     /\ converted' = IF r THEN converted ELSE Append(converted, bIdx)
                     /\ bpc' = IF r THEN "raised" ELSE "loop"
    /\ UNCHANGED <<bmode, listing>>
    /\ UNCHANGED <<crsVars, dxfVars, recVars>>

\* dxf2shp.py lines 240-249, shp2dxf.py lines 134-209: one turn of the loop
\* over the listing, with its try/except
BatchTurn ==
    /\ bpc = "loop"
    /\ bIdx <= Len(listing)
    /\ bIdx' = bIdx + 1
    /\ IF ~matches(bmode, listing[bIdx].name)
       THEN UNCHANGED <<bpc, attempted, failed, converted>>
       ELSE /\ attempted' = Append(attempted, bIdx)
            /\ \E fault \in (IF bmode = "dxf2shp" THEN DxfFaults ELSE ShpFaults) :
                 LET r == IF bmode = "dxf2shp"
                          THEN convert_one_dxf_raises(listing[bIdx], fault)
                          ELSE convert_one_shp_raises(listing[bIdx], fault)
                 IN  /\ failed' = IF r THEN Append(failed, bIdx) ELSE failed
                     /\ converted' = IF r THEN converted ELSE Append(converted, bIdx)
                     /\ bpc' = "loop"
    /\ UNCHANGED <<bmode, listing>>
    /\ UNCHANGED <<crsVars, dxfVars, recVars>>

\* dxf2shp.py line 250, shp2dxf.py line 211: "All conversions completed."
BatchEnd ==
    /\ bpc = "loop"
    /\ bIdx > Len(listing)
    /\ bpc' = "completed"
    /\ UNCHANGED <<bmode, listing, bIdx, attempted, failed, converted>>
    /\ UNCHANGED <<crsVars, dxfVars, recVars>>

InitBatch ==
    /\ bmode \in {"dxf2shp", "shp2dxf"}
    /\ listing \in Listings
    /\ bpc = "start"
    /\ bIdx = 0
    /\ attempted = <<>>
    /\ failed = <<>>
    /\ converted = <<>>
    /\ IdleCrs
    /\ IdleDxf
    /\ IdleRec

NextBatch == BatchStart \/ BatchTurn \/ BatchEnd

\* the program is single-threaded and synchronous: a step that can be taken
\* is taken
SpecBatch == InitBatch /\ [][NextBatch]_vars /\ WF_vars(NextBatch)

----------------------------------------------------------------------------
(* Claims about convert_one_dxf *)

Exited == dpc \in {"done", "raised", "backdone"}

\* C1: when the convert_one_dxf call has ended, normally or by an exception,
\* no writer that was opened is left unclosed.
C1_NoWriterLeftOpen ==
    Exited => \A k \in KindSet : writers[k] # "open"

PolylineLike(e) == e.et \in {T_LWPOLYLINE, T_POLYLINE}

\* the features written so far, each with the entity it came from
Features ==
    {f \in [kind : KindSet, i : 1..MaxEntities] : f.i <= Len(sources[f.kind])}

Src(f) == sources[f.kind][f.i]

Shp(f) == shapes[f.kind][f.i]

LinesUnmodified(f) ==
    f.kind = "lines" => /\ Shp(f).shapeType = "POLYLINE"
                        /\ Shp(f).points = Src(f).pts
                        /\ Shp(f).parts = <<0>>

AfterClosing(pts) ==
    IF Len(pts) > 0 /\ pts[1] # pts[Len(pts)] THEN Len(pts) + 1 ELSE Len(pts)

\* C6 as stated: a polyline-like entity goes to polygons exactly when its
\* closed flag is set and it has at least 3 points counted after closing;
\* otherwise to lines as one unmodified part; never to polygons without the
\* closed flag.
C6_PolygonIffClosedAndThreeAfterClosing ==
    \A f \in Features :
        PolylineLike(Src(f)) =>
            /\ f.kind = "polygons" <=>
                   (is_closed(Src(f)) /\ AfterClosing(Src(f).pts) >= 3)
            /\ f.kind \in {"polygons", "lines"}
            /\ LinesUnmodified(f)
            /\ ~is_closed(Src(f)) => f.kind # "polygons"

\* C6 amended: a polyline-like entity goes to polygons exactly when its
\* closed flag is set and it has at least 3 vertices as read from the source
\* (counted before the closing point is appended); otherwise to lines as one
\* unmodified part; never to polygons without the closed flag.
C6_PolygonIffClosedAndThreeVertices ==
    \A f \in Features :
        PolylineLike(Src(f)) =>
            /\ f.kind = "polygons" <=> (is_closed(Src(f)) /\ Len(Src(f).pts) >= 3)
            /\ f.kind \in {"polygons", "lines"}
            /\ LinesUnmodified(f)
            /\ ~is_closed(Src(f)) => f.kind # "polygons"

\* a closed two-vertex entity in lines, an open one with coinciding ends in
\* lines, and a closed one in polygons have all been seen
C6_Witness ==
    /\ Len(sources["lines"]) = 2
    /\ sources["lines"][1].et = T_LWPOLYLINE
    /\ is_closed(sources["lines"][1])
    /\ sources["lines"][1].pts = <<PA, PB>>
    /\ ~is_closed(sources["lines"][2])
    /\ sources["lines"][2].pts = <<PA, PB, PC, PA>>
    /\ shapes["lines"][2].points = <<PA, PB, PC, PA>>

Distinct(pts) == Cardinality({pts[i] : i \in 1..Len(pts)})

ClosedSource(f) ==
    /\ f.kind = "polygons"
    /\ PolylineLike(Src(f))
    /\ is_closed(Src(f))
    /\ Distinct(Src(f).pts) >= 3

PolygonsBack == dpc \in {"done", "backdone"} /\ backIdx = 3 /\ writers["polygons"] = "closed"

Out(f) == dxfOut[f.kind][f.i]

\* C10 as stated: a closed polyline with at least 3 distinct vertices comes
\* back as a closed entity whose first and last points are equal and whose
\* points before the last are the original vertex sequence.
C10_RingMinusClosingPointIsOriginal ==
    PolygonsBack =>
        /\ Len(dxfOut["polygons"]) = Len(sources["polygons"])
        /\ \A f \in Features :
             ClosedSource(f) =>
                 /\ Out(f).close
                 /\ Out(f).pts[1] = Out(f).pts[Len(Out(f).pts)]
                 /\ SubSeq(Out(f).pts, 1, Len(Out(f).pts) - 1) = Src(f).pts

\* C10 amended: such a polyline comes back as a closed entity whose first and
\* last points are equal; when the original first and last vertices differ
\* its points are the original sequence followed by the first vertex, and
\* when they already coincide its points are the original sequence itself
\* (nothing is appended, the original last vertex is the closing point).
C10_RingIsOriginalClosedOnce ==
    PolygonsBack =>
        /\ Len(dxfOut["polygons"]) = Len(sources["polygons"])
        /\ \A f \in Features :
             ClosedSource(f) =>
                 /\ Out(f).close
                 /\ Out(f).etype = "LWPOLYLINE"
                 /\ Out(f).pts[1] = Out(f).pts[Len(Out(f).pts)]
                 /\ Out(f).pts =
                        IF Src(f).pts[1] # Src(f).pts[Len(Src(f).pts)]
                        THEN Src(f).pts \o <<Src(f).pts[1]>>
                        ELSE Src(f).pts

C10_Witness ==
    /\ PolygonsBack
    /\ Len(sources["polygons"]) = 2
    /\ sources["polygons"][1].pts = <<PA, PB, PC, PA>>
    /\ sources["polygons"][2].pts = <<PA, PB, PC, PD>>
    /\ dxfOut["polygons"][2].pts = <<PA, PB, PC, PD, PA>>

\* the loop over the entities is running or has ended without an exception
LoopIntact == dpc \in {"loop", "done", "backdone"}

\* C15: after any number of processed entities, for each of points, lines
\* and polygons the writer has been opened if and only if the count of the
\* kind is above 0, the count equals the number of shapes and the number of
\* attribute records written to that writer, and the three counts add up to
\* the number of entities processed.
C15_CountsMatchWriters ==
    LoopIntact =>
        /\ \A k \in KindSet :
              /\ (writers[k] # "none") <=> (counts[k] > 0)
              /\ counts[k] = Len(shapes[k])
              /\ counts[k] = Len(records[k])
              /\ Len(sources[k]) = counts[k]
        /\ counts["points"] + counts["lines"] + counts["polygons"] = nDone

C15_Witness ==
    /\ dpc = "loop"
    /\ nDone = MaxEntities
    /\ counts["points"] = 1
    /\ counts["polygons"] = MaxEntities - 1
    /\ writers["lines"] = "none"
    /\ writers["points"] = "open"

----------------------------------------------------------------------------
(* Claims about entity_rgb *)

OwnIndexInherits(d) == ~d.has_true_color /\ (~d.has_color \/ d.color \in {0, 256})

LayerOf(d) == IF d.has_layer /\ d.layer # <<>> THEN d.layer ELSE <<"0">>

LookupFails ==
    \/ \E i \in 1..Len(lastRgb.lookups) : ~(1 <= lastRgb.lookups[i] /\ lastRgb.lookups[i] <= 255)
    \/ (OwnIndexInherits(lastRgb.d) /\ LayerOf(lastRgb.d) \notin DOMAIN docLayers)

\* C4: entity_rgb never raises; it returns an RGB triple, and (0,0,0) whenever
\* an indexed-color lookup or the layer lookup fails.
C4_EntityRgbNeverRaises ==
    lastRgb.called =>
        /\ ~lastRgb.raised
        /\ \A i \in 1..3 : InByte(lastRgb.rgb[i])
        /\ LookupFails => lastRgb.rgb = Black

\* C9: for an entity without a true color whose own index is 0, 256 or unset,
\* the indexed-color lookup is never called with 0 or 256 and the call does
\* not raise; the result is the color of the entity's layer, looked up with
\* index 7 when the layer's color is unset, and black when the layer is not
\* in the layer table.
C9_SentinelsFallThroughToLayer ==
    (lastRgb.called /\ OwnIndexInherits(lastRgb.d)) =>
        /\ ~lastRgb.raised
        /\ \A i \in 1..Len(lastRgb.lookups) : lastRgb.lookups[i] \notin {0, 256}
        /\ IF LayerOf(lastRgb.d) \in DOMAIN docLayers
           THEN LET own == docLayers[LayerOf(lastRgb.d)]
                IN  /\ lastRgb.lookups = <<IF own = 0 THEN 7 ELSE own>>
                    /\ lastRgb.rgb = AciColor[IF own = 0 THEN 7 ELSE own]
           ELSE /\ lastRgb.lookups = <<>>
                /\ lastRgb.rgb = Black

C9_Witness ==
    /\ lastRgb.called
    /\ lastRgb.d.has_color
    /\ lastRgb.d.color = 256
    /\ ~lastRgb.d.has_true_color
    /\ lastRgb.d.layer = <<"A">>
    /\ <<"A">> \in DOMAIN docLayers
    /\ docLayers[<<"A">>] = 0
    /\ lastRgb.rgb = <<255, 255, 255>>

----------------------------------------------------------------------------
(* Claims about the color of an attribute record *)

HasField(name) == name_to_idx(fields_lower_of(recFields), name) # 0

FieldValue(name) == recVals[name_to_idx(fields_lower_of(recFields), name)]

ByteField(name) ==
    HasField(name) /\ FieldValue(name).t = "int" /\ InByte(FieldValue(name).n)

ValidRgbFields == ByteField(<<"r">>) /\ ByteField(<<"g">>) /\ ByteField(<<"b">>)

FieldsTriple == <<FieldValue(<<"r">>).n, FieldValue(<<"g">>).n, FieldValue(<<"b">>).n>>

RGB_TEXT == <<"r", "g", "b", "_", "t", "e", "x", "t">>

RgbTextUnusable ==
    \/ ~HasField(RGB_TEXT)
    \/ FieldValue(RGB_TEXT).t # "str"
    \/ FieldValue(RGB_TEXT).s \in InvalidRgbTexts

----------------------------------------------------------------------------
(* Claims about the batch loops *)

RECURSIVE MatchingUpTo(_)
\* the positions up to n of the listing whose file name has the extension of
\* the batch, in listing order
MatchingUpTo(n) ==
    IF n = 0 THEN <<>>
    ELSE IF matches(bmode, listing[n].name) THEN Append(MatchingUpTo(n - 1), n)
    ELSE MatchingUpTo(n - 1)

InSeq(x, s) == \E i \in 1..Len(s) : s[i] = x

\* while the loop runs every matching file it has passed was attempted, once
\* and in order, whether or not an earlier one failed; each attempted file
\* either failed or was converted; no failure ends the run
BatchIsolated ==
    /\ bpc \in {"start", "nodir", "noout", "loop", "completed"}
         \/ (bpc = "raised" /\ attempted = <<>>)
    /\ bpc = "loop" => attempted = MatchingUpTo(bIdx - 1)
    /\ bpc = "completed" => attempted = MatchingUpTo(Len(listing))
    /\ \A i \in 1..Len(listing) :
         InSeq(i, attempted) => (InSeq(i, failed) <=> ~InSeq(i, converted))

\* C12: a failure while one input file is converted is caught and does not end
\* the batch: every other matching file of the input directory is still
\* attempted, and the batch reaches its completion.
C12_FileLevelIsolation ==
    /\ []BatchIsolated
    /\ (bpc = "loop") ~> (bpc = "completed")

C12_Witness ==
    /\ bpc = "completed"
    /\ Len(listing) = MaxFiles
    /\ bmode = "dxf2shp"
    /\ listing[1].entities = <<GoodPoint, BadVertices>>
    /\ failed = <<1>>
    /\ InSeq(Len(listing), converted)

====
